---- MODULE Spec2Model ----
(***************************************************************************)
(* A model of the three scripts of the repository:                         *)
(*   scripts/escape-changelog.py, scripts/escape-markdown.py  (Spec)       *)
(*   sync_readme.py                                           (SpecSync)   *)
(* A Python str is a sequence of characters; a character is a one-letter   *)
(* TLA+ string; "U+0060" stands for the one character backtick and        *)
(* "U+00E9" for the one character e-acute.                                 *)
(***************************************************************************)
EXTENDS Integers, Sequences, FiniteSets, TLC

VARIABLES
    script,       \* which escaper runs: "changelog" or "markdown"
    file_status,  \* the input file: "ok", "missing" or "undecodable"
    file,         \* the decoded characters stored in the input file
    pc,           \* the position of main()
    read_result,  \* the value f.read() returned
    text,         \* main's variable text
    escaped,      \* main's variable escaped
    encoded,      \* main's variable encoded (escape-markdown.py)
    exc,          \* the exception caught by main's except clause
    stdout,       \* the lines written to standard output
    stderr,       \* the lines written to standard error
    exit_status,  \* the process's exit status, "running" until it exits
    \* sync_readme.py
    source,       \* temp/README.md: its stored characters, or Missing
    dest_before,  \* README.md before the run: its stored characters, or Missing
    dest,         \* README.md: its stored characters, or Missing
    http,         \* what the GET will do: raise, or return a response
    linesep,      \* os.linesep of the platform
    encoding,     \* the locale's encoding, which open() uses: "utf-8" or "ascii"
    sync_pc,      \* the position of the script
    raw_content,  \* the script's variable raw_content
    content,      \* the script's variable content
    new_content,  \* the script's variable new_content
    requests,     \* the number of GET requests issued
    steps,        \* the steps the script has begun, in order
    error         \* the uncaught exception that ended the script

escaper_vars == <<script, file_status, file, pc, read_result, text,
                  escaped, encoded, exc, stdout, stderr, exit_status>>

sync_vars == <<source, dest_before, dest, http, linesep, encoding, sync_pc,
               raw_content, content, new_content, requests, steps, error>>

vars == <<escaper_vars, sync_vars>>

-----------------------------------------------------------------------------
(* Bounds of the model *)

\* every string of at most MaxLen characters of Alphabet is an input file
MaxLen == 2
\* how far beyond the truncation budget the long input files reach
LongExtra == 1
\* temp/README.md is made of at most MaxPieces pieces of SourcePieces
MaxPieces == 2

-----------------------------------------------------------------------------
(* Strings *)

Min(a, b) == IF a <= b THEN a ELSE b

Range(seq) == {seq[i] : i \in 1..Len(seq)}

\* the number of positions 1..upto of seq holding a character of set
RECURSIVE CountIn(_, _, _, _)
CountIn(seq, set, from, upto) ==
    IF upto < from THEN 0
    ELSE IF from = upto THEN (IF seq[from] \in set THEN 1 ELSE 0)
    ELSE LET mid == (from + upto) \div 2
         IN  CountIn(seq, set, from, mid) + CountIn(seq, set, mid + 1, upto)

\* str.replace(old, new) for a one-character old: every occurrence is
\* replaced (computed by halves, which keeps the evaluation shallow: no
\* occurrence of a single character lies across the cut)
RECURSIVE replace_single_character(_, _, _)
replace_single_character(str, old, new) ==
    IF Len(str) = 0 THEN <<>>
    ELSE IF Len(str) = 1 THEN (IF str = old THEN new ELSE str)
    ELSE LET h == Len(str) \div 2
         IN  replace_single_character(SubSeq(str, 1, h), old, new)
             \o replace_single_character(SubSeq(str, h + 1, Len(str)), old, new)

\* str.replace(old, new, 1): the leftmost occurrence only
replace_substring_once(str, old, new) ==
    LET m == Len(old)
        found == {k \in 1..(Len(str) - m + 1) : SubSeq(str, k, k + m - 1) = old}
    IN  IF found = {} THEN str
        ELSE LET i == CHOOSE k \in found : \A j \in found : k <= j
             IN  SubSeq(str, 1, i - 1) \o new \o SubSeq(str, i + m, Len(str))

\* str.replace(old, new) for a longer old: the leftmost occurrence is found,
\* replaced, and the search goes on behind it (new is not searched)
RECURSIVE replace_substring(_, _, _)
replace_substring(str, old, new) ==
    LET m == Len(old)
        found == {k \in 1..(Len(str) - m + 1) : SubSeq(str, k, k + m - 1) = old}
    IN  IF found = {} THEN str
        ELSE LET i == CHOOSE k \in found : \A j \in found : k <= j
             IN  SubSeq(str, 1, i - 1) \o new
                 \o replace_substring(SubSeq(str, i + m, Len(str)), old, new)

\* Python's str.replace(old, new), old not empty: the string itself when old
\* does not occur in it
replace(str, old, new) ==
    IF Len(old) = 1
    THEN IF \E i \in 1..Len(str) : str[i] = old[1]
         THEN replace_single_character(str, old, new)
         ELSE str
    ELSE replace_substring(str, old, new)

\* the text a file opened in text mode (newline=None) yields for its stored
\* characters: universal newlines, "\r\n" and a lone "\r" are read as "\n"
RECURSIVE universal_newlines(_, _, _)
universal_newlines(stored, from, upto) ==
    IF upto < from THEN <<>>
    ELSE IF from = upto
         THEN IF stored[from] = "\r" THEN <<"\n">>
              ELSE IF stored[from] = "\n" /\ from > 1 /\ stored[from - 1] = "\r"
                   THEN <<>>
                   ELSE <<stored[from]>>
    ELSE LET mid == (from + upto) \div 2
         IN  universal_newlines(stored, from, mid)
             \o universal_newlines(stored, mid + 1, upto)

read_text(stored) ==
    IF \E i \in 1..Len(stored) : stored[i] = "\r"
    THEN universal_newlines(stored, 1, Len(stored))
    ELSE stored

-----------------------------------------------------------------------------
(* escape_markdown_v2 *)

\* the list with the backslash last instead of first
special_chars_backslash_last ==
    <<"_", "*", "[", "]", "(", ")", "~", "U+0060", ">", "#", "+", "-", "=",
      "|", "{", "}", ".", "!", "\\">>

\* escape-changelog.py
special_chars ==
    <<"\\", "_", "*", "[", "]", "(", ")", "~", "U+0060", ">", "#", "+", "-", "=",
      "|", "{", "}", ".", "!">>

\* escape-markdown.py
special ==
    <<"\\", "_", "*", "[", "]", "(", ")", "~", "U+0060", ">", "#", "+", "-", "=",
      "|", "{", "}", ".", "!">>

\* the loop run from the last character of the list to the first
RECURSIVE escape_loop_reversed(_, _, _)
escape_loop_reversed(chars, k, str) ==
    IF k = 0 THEN str
    ELSE escape_loop_reversed(chars, k - 1,
                              replace(str, <<chars[k]>>, <<"\\", chars[k]>>))

\* for c in chars: text = text.replace(c, "\\" + c), the first k passes
RECURSIVE escape_loop(_, _, _)
escape_loop(chars, k, str) ==
    IF k = 0 THEN str
    ELSE replace(escape_loop(chars, k - 1, str), <<chars[k]>>, <<"\\", chars[k]>>)

special_of(which) == IF which = "changelog" THEN special_chars ELSE special

\* the loop stops one character short
escape_markdown_v2_skips_last(which, str) ==
    escape_loop(special_of(which), Len(special_of(which)) - 1, str)

escape_markdown_v2(which, str) ==
    escape_loop(special_of(which), Len(special_of(which)), str)

\* text[:limit + 1]
truncate_off_by_one(str, limit) == SubSeq(str, 1, Min(Len(str), limit + 1))

\* text[:limit]
truncate(str, limit) == SubSeq(str, 1, Min(Len(str), limit))

\* urllib.parse.quote leaves these characters alone (safe is "/" by default)
always_safe ==
    {"A", "B", "C", "D", "E", "F", "G", "H", "I", "J", "K", "L", "M", "N", "O",
     "P", "Q", "R", "S", "T", "U", "V", "W", "X", "Y", "Z",
     "a", "b", "c", "d", "e", "f", "g", "h", "i", "j", "k", "l", "m", "n", "o",
     "p", "q", "r", "s", "t", "u", "v", "w", "x", "y", "z",
     "0", "1", "2", "3", "4", "5", "6", "7", "8", "9", "_", ".", "-", "~", "/"}

\* the UTF-8 bytes of the other characters of the model, in upper-case hex
utf8_hex ==
    [c \in {"\\", "*", "[", "]", "(", ")", "U+0060", ">", "#", "+", "=", "|",
            "{", "}", "!", "%", "\n", "\r", " ", "U+00E9"} |->
        CASE c = "\\" -> <<"5C">>     [] c = "*" -> <<"2A">>
          [] c = "[" -> <<"5B">>      [] c = "]" -> <<"5D">>
          [] c = "(" -> <<"28">>      [] c = ")" -> <<"29">>
          [] c = "U+0060" -> <<"60">> [] c = ">" -> <<"3E">>
          [] c = "#" -> <<"23">>      [] c = "+" -> <<"2B">>
          [] c = "=" -> <<"3D">>      [] c = "|" -> <<"7C">>
          [] c = "{" -> <<"7B">>      [] c = "}" -> <<"7D">>
          [] c = "!" -> <<"21">>      [] c = "%" -> <<"25">>
          [] c = "\n" -> <<"0A">>     [] c = "\r" -> <<"0D">>
          [] c = " " -> <<"20">>      [] c = "U+00E9" -> <<"C3", "A9">>]

hex_digits(byte) ==
    CASE byte = "5C" -> <<"5", "C">> [] byte = "2A" -> <<"2", "A">>
      [] byte = "5B" -> <<"5", "B">> [] byte = "5D" -> <<"5", "D">>
      [] byte = "28" -> <<"2", "8">> [] byte = "29" -> <<"2", "9">>
      [] byte = "60" -> <<"6", "0">> [] byte = "3E" -> <<"3", "E">>
      [] byte = "23" -> <<"2", "3">> [] byte = "2B" -> <<"2", "B">>
      [] byte = "3D" -> <<"3", "D">> [] byte = "7C" -> <<"7", "C">>
      [] byte = "7B" -> <<"7", "B">> [] byte = "7D" -> <<"7", "D">>
      [] byte = "21" -> <<"2", "1">> [] byte = "25" -> <<"2", "5">>
      [] byte = "0A" -> <<"0", "A">> [] byte = "0D" -> <<"0", "D">>
      [] byte = "20" -> <<"2", "0">> [] byte = "C3" -> <<"C", "3">>
      [] byte = "A9" -> <<"A", "9">>

\* "%XX" for each byte
RECURSIVE percent_encode(_)
percent_encode(bytes) ==
    IF bytes = <<>> THEN <<>>
    ELSE <<"%">> \o hex_digits(Head(bytes)) \o percent_encode(Tail(bytes))

\* one character of urllib.parse.quote: itself when safe, else its bytes
quote_char(c) ==
    IF c \in always_safe THEN <<c>> ELSE percent_encode(utf8_hex[c])

\* urllib.parse.quote(string), character by character (computed by halves)
RECURSIVE quote(_)
quote(str) ==
    IF Len(str) = 0 THEN <<>>
    ELSE IF Len(str) = 1 THEN quote_char(str[1])
    ELSE LET h == Len(str) \div 2
         IN  quote(SubSeq(str, 1, h)) \o quote(SubSeq(str, h + 1, Len(str)))

\* whether str.encode("ascii") succeeds
is_ascii(str) == "U+00E9" \notin Range(str)

-----------------------------------------------------------------------------
(* The input files of the escaper scripts *)

\* escape-changelog.py: text = text[:3500]
TRUNCATE_LIMIT == 3500

\* the reserved characters of the markup dialect
ReservedSet ==
    {"\\", "_", "*", "[", "]", "(", ")", "~", "U+0060", ">", "#", "+", "-", "=",
     "|", "{", "}", ".", "!"}

Alphabet == ReservedSet \cup {"a", "\n"}

ShortFiles == UNION {[1..k -> Alphabet] : k \in 0..MaxLen}

SampleFiles ==
    { <<"a", "_", "b", "*", "c">>,
      <<"F", "i", "x", "e", "d", " ", "b", "u", "g", " ", "i", "n", " ",
        "v", "1", ".", "2", ".", "3", "!">>,
      <<"a", "\n", "%", "0", "A", "\n", "!">>,
      <<"%", "0", "A">>,
      <<"a", "\r", "\n", "b", "\r", "-">>,
      <<"U+00E9", "_", "\n">>,
      <<"\\", "_", "\\", "\\">> }

LongPatterns == { <<"a">>, <<"_">>, <<"a", "\n", "_", "\\">> }

LongFiles ==
    { [i \in 1..n |-> p[((i - 1) % Len(p)) + 1]] :
        n \in (TRUNCATE_LIMIT - 1)..(TRUNCATE_LIMIT + LongExtra), p \in LongPatterns }

Files == ShortFiles \cup SampleFiles \cup LongFiles

-----------------------------------------------------------------------------
(* main() of escape-changelog.py and of escape-markdown.py *)

NoValue == <<"<unbound>">>

InitEscaper ==
    /\ script \in {"changelog", "markdown"}
    /\ file_status \in {"ok", "missing", "undecodable"}
    /\ file \in (IF file_status = "ok" THEN Files ELSE {<<>>})
    /\ pc = "open"
    /\ read_result = NoValue
    /\ text = NoValue
    /\ escaped = NoValue
    /\ encoded = NoValue
    /\ exc = "none"
    /\ stdout = <<>>
    /\ stderr = <<>>
    /\ exit_status = "running"

\* sync_readme.py does not run
SyncIdle ==
    /\ source = <<>> /\ dest_before = <<>> /\ dest = <<>>
    /\ http = [raises |-> TRUE] /\ linesep = <<"\n">> /\ encoding = "utf-8"
    /\ sync_pc = "idle"
    /\ raw_content = NoValue /\ content = NoValue /\ new_content = NoValue
    /\ requests = 0 /\ steps = <<>> /\ error = "none"

\* an exception raised inside the try block: control goes to the except clause
raise(e) ==
    /\ exc' = e
    /\ pc' = "except"

\* with open(path, "r", encoding="utf-8") as f:
open_file(which) ==
    /\ script = which
    /\ pc = "open"
    /\ IF file_status = "missing"
       THEN raise("FileNotFoundError")
       ELSE pc' = "read" /\ exc' = exc
    /\ UNCHANGED <<script, file_status, file, read_result, text, escaped, encoded,
                   stdout, stderr, exit_status>>

\* text = f.read()
read_file(which, next) ==
    /\ script = which
    /\ pc = "read"
    /\ IF file_status = "undecodable"
       THEN raise("UnicodeDecodeError") /\ UNCHANGED <<read_result, text>>
       ELSE /\ read_result' = read_text(file)
            /\ text' = read_text(file)
            /\ pc' = next
            /\ exc' = exc
    /\ UNCHANGED <<script, file_status, file, escaped, encoded, stdout, stderr,
                   exit_status>>

\* print(value): the line is encoded whole before any of it is written, so
\* on a standard output that cannot encode it nothing is written
print_stdout(which, at, value) ==
    /\ script = which
    /\ pc = at
    /\ \/ /\ stdout' = Append(stdout, value)
          /\ pc' = "return"
          /\ exc' = exc
       \/ /\ ~is_ascii(value)
          /\ raise("UnicodeEncodeError")
          /\ stdout' = stdout
    /\ UNCHANGED <<script, file_status, file, read_result, text, escaped, encoded,
                   stderr, exit_status>>

\* the except clause without sys.exit(1): main() returns after the message
except_clause_no_exit(which) ==
    /\ script = which
    /\ pc = "except"
    /\ stderr' = Append(stderr, [prefix |-> "Error: ", message |-> exc])
    /\ exit_status' = 0
    /\ pc' = "exited"
    /\ UNCHANGED <<script, file_status, file, read_result, text, escaped, encoded,
                   exc, stdout>>

\* except Exception as e: print(f"Error: {e}", file=sys.stderr); sys.exit(1)
except_clause(which) ==
    /\ script = which
    /\ pc = "except"
    /\ stderr' = Append(stderr, [prefix |-> "Error: ", message |-> exc])
    /\ exit_status' = 1
    /\ pc' = "exited"
    /\ UNCHANGED <<script, file_status, file, read_result, text, escaped, encoded,
                   exc, stdout>>

\* main() returns and the interpreter exits
return_from_main(which) ==
    /\ script = which
    /\ pc = "return"
    /\ exit_status' = 0
    /\ pc' = "exited"
    /\ UNCHANGED <<script, file_status, file, read_result, text, escaped, encoded,
                   exc, stdout, stderr>>

(* escape-changelog.py *)

ChangelogOpen == open_file("changelog") /\ UNCHANGED sync_vars

ChangelogRead == read_file("changelog", "truncate") /\ UNCHANGED sync_vars

ChangelogTruncate ==
    /\ script = "changelog"
    /\ pc = "truncate"
    /\ text' = truncate(text, TRUNCATE_LIMIT)
    /\ pc' = "escape"
    /\ UNCHANGED <<script, file_status, file, read_result, escaped, encoded, exc,
                   stdout, stderr, exit_status>>
    /\ UNCHANGED sync_vars

ChangelogEscape ==
    /\ script = "changelog"
    /\ pc = "escape"
    /\ escaped' = escape_markdown_v2("changelog", text)
    /\ pc' = "newlines"
    /\ UNCHANGED <<script, file_status, file, read_result, text, encoded, exc,
                   stdout, stderr, exit_status>>
    /\ UNCHANGED sync_vars

\* the newline step applied to text instead of escaped
ChangelogNewlines_of_text ==
    /\ script = "changelog"
    /\ pc = "newlines"
    /\ escaped' = replace(text, <<"\n">>, <<"%", "0", "A">>)
    /\ pc' = "print"
    /\ UNCHANGED <<script, file_status, file, read_result, text, encoded, exc,
                   stdout, stderr, exit_status>>
    /\ UNCHANGED sync_vars

ChangelogNewlines ==
    /\ script = "changelog"
    /\ pc = "newlines"
    /\ escaped' = replace(escaped, <<"\n">>, <<"%", "0", "A">>)
    /\ pc' = "print"
    /\ UNCHANGED <<script, file_status, file, read_result, text, encoded, exc,
                   stdout, stderr, exit_status>>
    /\ UNCHANGED sync_vars

ChangelogPrint == print_stdout("changelog", "print", escaped) /\ UNCHANGED sync_vars

ChangelogExcept == except_clause("changelog") /\ UNCHANGED sync_vars

ChangelogReturn == return_from_main("changelog") /\ UNCHANGED sync_vars

(* escape-markdown.py *)

MarkdownOpen == open_file("markdown") /\ UNCHANGED sync_vars

MarkdownRead == read_file("markdown", "escape") /\ UNCHANGED sync_vars

MarkdownEscape ==
    /\ script = "markdown"
    /\ pc = "escape"
    /\ escaped' = escape_markdown_v2("markdown", text)
    /\ pc' = "quote"
    /\ UNCHANGED <<script, file_status, file, read_result, text, encoded, exc,
                   stdout, stderr, exit_status>>
    /\ UNCHANGED sync_vars

MarkdownQuote ==
    /\ script = "markdown"
    /\ pc = "quote"
    /\ encoded' = quote(escaped)
    /\ pc' = "print"
    /\ UNCHANGED <<script, file_status, file, read_result, text, escaped, exc,
                   stdout, stderr, exit_status>>
    /\ UNCHANGED sync_vars

MarkdownPrint == print_stdout("markdown", "print", encoded) /\ UNCHANGED sync_vars

MarkdownExcept == except_clause("markdown") /\ UNCHANGED sync_vars

MarkdownReturn == return_from_main("markdown") /\ UNCHANGED sync_vars

NextEscaper ==
    \/ ChangelogOpen \/ ChangelogRead \/ ChangelogTruncate \/ ChangelogEscape
    \/ ChangelogNewlines \/ ChangelogPrint \/ ChangelogExcept \/ ChangelogReturn
    \/ MarkdownOpen \/ MarkdownRead \/ MarkdownEscape \/ MarkdownQuote
    \/ MarkdownPrint \/ MarkdownExcept \/ MarkdownReturn

Init == InitEscaper /\ SyncIdle

Spec == Init /\ [][NextEscaper]_vars

-----------------------------------------------------------------------------
(* Properties of the escaper scripts *)

\* prefix counts: the k-th entry is the number of characters of set among
\* the first k characters of seq
RECURSIVE PrefixCounts(_, _)
PrefixCounts(seq, set) ==
    IF Len(seq) = 0 THEN <<>>
    ELSE IF Len(seq) = 1 THEN <<IF seq[1] \in set THEN 1 ELSE 0>>
    ELSE LET h == Len(seq) \div 2
             left == PrefixCounts(SubSeq(seq, 1, h), set)
             right == PrefixCounts(SubSeq(seq, h + 1, Len(seq)), set)
             base == left[h]
         IN  left \o [i \in 1..Len(right) |-> right[i] + base]

\* the state variable escaped holds the value escape_markdown_v2(text) returned
EscapeReturned ==
    \/ script = "changelog" /\ pc = "newlines"
    \/ script = "markdown" /\ pc = "quote"

\* what a single left-to-right scan emits for the characters from..upto of
\* str: a backslash before every reserved character
RECURSIVE ScanEmits(_, _, _)
ScanEmits(str, from, upto) ==
    IF upto < from THEN <<>>
    ELSE IF from = upto
         THEN (IF str[from] \in ReservedSet THEN <<"\\", str[from]>> ELSE <<str[from]>>)
    ELSE LET mid == (from + upto) \div 2
         IN  ScanEmits(str, from, mid) \o ScanEmits(str, mid + 1, upto)

SingleScan(str) == ScanEmits(str, 1, Len(str))

\* C1: in both scripts the 19-pass replacement loop returns what a single
\* left-to-right scan of its argument emits: backslash then c for a reserved
\* character c, and c alone for any other character.
C1_SequentialEqualsSingleScan ==
    EscapeReturned => escaped = SingleScan(text)

C1_Witness ==
    /\ EscapeReturned
    /\ script = "changelog"
    /\ text = <<"a", "_", "b", "*", "c">>
    /\ escaped = <<"a", "\\", "_", "b", "\\", "*", "c">>

\* C2: the backslash is the first character of the loop, and the returned
\* text holds 2 x (backslashes of the argument) + (other reserved characters
\* of the argument) backslashes; backslash,underscore gives the 4 characters
\* backslash,backslash,backslash,underscore.
C2_BackslashFirst ==
    /\ special_chars[1] = "\\"
    /\ special[1] = "\\"
    /\ EscapeReturned =>
         /\ CountIn(escaped, {"\\"}, 1, Len(escaped))
              = 2 * CountIn(text, {"\\"}, 1, Len(text))
                + CountIn(text, ReservedSet \ {"\\"}, 1, Len(text))
         /\ text = <<"\\", "_">> => escaped = <<"\\", "\\", "\\", "_">>

C2_Witness ==
    /\ EscapeReturned
    /\ script = "markdown"
    /\ text = <<"\\", "_">>
    /\ Len(escaped) = 4

\* C3: these are equivalent: the argument holds no reserved character; the
\* escaper returns its argument; escaping the returned text again returns it.
C3_IdentityIffIdempotentIffUnreserved ==
    EscapeReturned =>
        LET unreserved == Range(text) \cap ReservedSet = {}
            identity == escaped = text
            idempotent == escape_markdown_v2(script, escaped) = escaped
        IN  (unreserved <=> identity) /\ (identity <=> idempotent)

C3_Witness ==
    /\ EscapeReturned
    /\ text = <<"a", "!">>
    /\ escaped # text
    /\ escape_markdown_v2(script, escaped) = <<"a", "\\", "\\", "\\", "!">>

\* Telegram's limit on a message, which the truncation budget is chosen for
TRANSPORT_LIMIT == 4096

\* escape-changelog.py has truncated what it read
Truncated ==
    script = "changelog" /\ read_result # NoValue /\ pc # "truncate"

\* C4: escape-changelog.py truncates before it escapes: the text handed to
\* the escaper is the prefix of what was read, of length
\* min(len, 3500), so of length 3500 for anything longer.
C4_TruncateBeforeEscape ==
    Truncated =>
        /\ Len(text) = Min(Len(read_result), TRUNCATE_LIMIT)
        /\ text = SubSeq(read_result, 1, Len(text))
        /\ Len(read_result) > TRUNCATE_LIMIT => Len(text) = TRUNCATE_LIMIT
        /\ pc = "escape" => escaped = NoValue

\* an input longer than the budget whose printed line exceeds the limit
C4_Witness ==
    /\ Truncated
    /\ Len(read_result) > TRUNCATE_LIMIT
    /\ Len(text) = TRUNCATE_LIMIT
    /\ stdout # <<>>
    /\ Len(stdout[1]) > TRANSPORT_LIMIT

\* after is before with each newline replaced by %0A and nothing else changed
NewlinesSubstituted(before, after) ==
    LET nl == PrefixCounts(before, {"\n"})
        n == Len(before)
        at(i) == i + 2 * (IF i = 1 THEN 0 ELSE nl[i - 1])
    IN  /\ Len(after) = n + 2 * (IF n = 0 THEN 0 ELSE nl[n])
        /\ \A i \in 1..n :
              IF before[i] = "\n"
              THEN SubSeq(after, at(i), at(i) + 2) = <<"%", "0", "A">>
              ELSE after[at(i)] = before[i]

\* every %0A of original stands in final, at the place the escaper and the
\* newline step move it to
LiteralKept(original, final) ==
    LET res == PrefixCounts(original, ReservedSet)
        nl == PrefixCounts(original, {"\n"})
        at(i) == i + (IF i = 1 THEN 0 ELSE res[i - 1] + 2 * nl[i - 1])
    IN  \A i \in 1..(Len(original) - 2) :
            SubSeq(original, i, i + 2) = <<"%", "0", "A">>
                => SubSeq(final, at(i), at(i) + 2) = <<"%", "0", "A">>

\* C5: the newline step of escape-changelog.py replaces every newline of the
\* escaped text with %0A and alters no other character of it; a %0A of the
\* original text passes through the escaper and this step unchanged.
C5_NewlineStep ==
    [][(script = "changelog" /\ pc = "newlines" /\ pc' = "print") =>
          /\ NewlinesSubstituted(escaped, escaped')
          /\ LiteralKept(text, escaped')]_vars

C5_Witness ==
    /\ script = "changelog"
    /\ pc = "print"
    /\ text = <<"a", "\n", "%", "0", "A", "\n", "!">>
    /\ escaped = <<"a", "%", "0", "A", "%", "0", "A", "%", "0", "A", "\\", "!">>

\* the complete transformed text of the input file
Transformed ==
    IF script = "changelog"
    THEN replace(escape_markdown_v2("changelog",
                     truncate(read_text(file), TRUNCATE_LIMIT)),
                 <<"\n">>, <<"%", "0", "A">>)
    ELSE quote(escape_markdown_v2("markdown", read_text(file)))

OutcomeSuccess ==
    /\ exit_status = 0
    /\ exc = "none"
    /\ stdout = <<Transformed>>
    /\ stderr = <<>>

OutcomeError ==
    /\ exit_status = 1
    /\ exc # "none"
    /\ stdout = <<>>
    /\ stderr = <<[prefix |-> "Error: ", message |-> exc]>>

\* the statements of each script's main(), by position
Statements ==
    IF script = "changelog"
    THEN {"open", "read", "truncate", "escape", "newlines", "print", "except", "return"}
    ELSE {"open", "read", "escape", "quote", "print", "except", "return"}

-----------------------------------------------------------------------------
(* sync_readme.py *)

Missing == <<"<no such file>">>

\* placeholder = "Sync README.md content from
\*                https://github.com/koiverse/ArchiveTune raw."
placeholder ==
    <<"S", "y", "n", "c", " ", "R", "E", "A", "D", "M", "E", ".", "m", "d",
      " ", "c", "o", "n", "t", "e", "n", "t", " ", "f", "r", "o", "m", " ",
      "h", "t", "t", "p", "s", ":", "/", "/", "g", "i", "t", "h", "u", "b",
      ".", "c", "o", "m", "/", "k", "o", "i", "v", "e", "r", "s", "e", "/",
      "A", "r", "c", "h", "i", "v", "e", "T", "u", "n", "e", " ", "r", "a",
      "w", ".">>

\* "0xFF" stands for a byte that is no text in the locale's encoding
InvalidByte == "0xFF"

\* what temp/README.md is made of
SourcePieces ==
    { placeholder, SubSeq(placeholder, 1, 4), <<"x">>, <<"\n">>, <<"\r">>,
      <<"U+00E9">>, <<InvalidByte>> }

RECURSIVE PiecesUpTo(_)
PiecesUpTo(n) ==
    IF n = 0 THEN {<<>>}
    ELSE PiecesUpTo(n - 1)
         \cup {a \o b : a \in PiecesUpTo(n - 1), b \in SourcePieces}

SourceFiles == PiecesUpTo(MaxPieces)

\* the bodies the server may answer with
Bodies ==
    { <<>>, <<"y">>, <<"N", "o", "t", " ", "F", "o", "u", "n", "d">>,
      <<"y", "\r", "\n", "z", "\n">>, <<"U+00E9">>, placeholder }

StatusCodes == {200, 404, 500}

Responses == {[raises |-> FALSE, status_code |-> sc, text |-> b] :
                 sc \in StatusCodes, b \in Bodies}

\* the stored characters of text written to a file opened in text mode
\* (newline=None): every "\n" is written as os.linesep
write_text(str, sep) ==
    IF sep = <<"\n">> THEN str ELSE replace(str, <<"\n">>, sep)

\* whether a file's stored characters decode in the encoding enc
decodes(stored, enc) ==
    /\ InvalidByte \notin Range(stored)
    /\ enc = "ascii" => is_ascii(stored)

\* whether str.encode(enc) succeeds
encodes(str, enc) == enc = "ascii" => is_ascii(str)

\* the escaper scripts do not run
EscaperIdle ==
    /\ script = "none" /\ file_status = "ok" /\ file = <<>> /\ pc = "idle"
    /\ read_result = NoValue /\ text = NoValue /\ escaped = NoValue
    /\ encoded = NoValue /\ exc = "none" /\ stdout = <<>> /\ stderr = <<>>
    /\ exit_status = "running"

InitSync ==
    /\ EscaperIdle
    /\ source \in SourceFiles \cup {Missing}
    /\ dest_before \in {Missing, <<"o", "l", "d">>}
    /\ dest = dest_before
    /\ http \in Responses \cup {[raises |-> TRUE]}
    /\ linesep \in {<<"\n">>, <<"\r", "\n">>}
    /\ encoding \in {"utf-8", "ascii"}
    /\ sync_pc = "copy"
    /\ raw_content = NoValue
    /\ content = NoValue
    /\ new_content = NoValue
    /\ requests = 0
    /\ steps = <<>>
    /\ error = "none"

\* an exception nothing catches: the script ends with a traceback
crash(e) ==
    /\ error' = e
    /\ sync_pc' = "crashed"

\* shutil.copy('temp/README.md', 'README.md')
SyncCopy ==
    /\ sync_pc = "copy"
    /\ steps' = Append(steps, "copy")
    /\ IF source = Missing
       THEN crash("FileNotFoundError") /\ dest' = dest
       ELSE dest' = source /\ sync_pc' = "fetch" /\ error' = error
    /\ UNCHANGED <<source, dest_before, http, linesep, encoding, raw_content,
                   content, new_content, requests>>
    /\ UNCHANGED escaper_vars

\* the fetch followed by response.raise_for_status()
SyncFetch_raise_for_status ==
    /\ sync_pc = "fetch"
    /\ steps' = Append(steps, "fetch")
    /\ requests' = requests + 1
    /\ IF http.raises
       THEN crash("ConnectionError") /\ raw_content' = raw_content
       ELSE IF http.status_code # 200
       THEN crash("HTTPError") /\ raw_content' = raw_content
       ELSE raw_content' = http.text /\ sync_pc' = "read" /\ error' = error
    /\ UNCHANGED <<source, dest_before, dest, http, linesep, encoding,
                   content, new_content>>
    /\ UNCHANGED escaper_vars

\* the fetch tried a second time when it raises
SyncFetch_retries ==
    /\ sync_pc = "fetch"
    /\ steps' = Append(steps, "fetch")
    /\ requests' = requests + 1
    /\ IF http.raises
       THEN IF requests = 0
            THEN sync_pc' = "fetch" /\ error' = error /\ raw_content' = raw_content
            ELSE crash("ConnectionError") /\ raw_content' = raw_content
       ELSE raw_content' = http.text /\ sync_pc' = "read" /\ error' = error
    /\ UNCHANGED <<source, dest_before, dest, http, linesep, encoding,
                   content, new_content>>
    /\ UNCHANGED escaper_vars

\* response = requests.get(url); raw_content = response.text
SyncFetch ==
    /\ sync_pc = "fetch"
    /\ steps' = Append(steps, "fetch")
    /\ requests' = requests + 1
    /\ IF http.raises
       THEN crash("ConnectionError") /\ raw_content' = raw_content
       ELSE raw_content' = http.text /\ sync_pc' = "read" /\ error' = error
    /\ UNCHANGED <<source, dest_before, dest, http, linesep, encoding,
                   content, new_content>>
    /\ UNCHANGED escaper_vars

\* with open('README.md', 'r') as f: content = f.read()
SyncRead ==
    /\ sync_pc = "read"
    /\ steps' = Append(steps, "read")
    /\ IF decodes(dest, encoding)
       THEN content' = read_text(dest) /\ sync_pc' = "replace" /\ error' = error
       ELSE crash("UnicodeDecodeError") /\ content' = content
    /\ UNCHANGED <<source, dest_before, dest, http, linesep, encoding,
                   raw_content, new_content, requests>>
    /\ UNCHANGED escaper_vars

\* a substitution that looks the placeholder up first, as content.index does,
\* and raises when it is absent
SyncReplace_index ==
    /\ sync_pc = "replace"
    /\ steps' = Append(steps, "substitute")
    /\ IF Len(content) >= Len(placeholder)
          /\ \E k \in 1..(Len(content) - Len(placeholder) + 1) :
                SubSeq(content, k, k + Len(placeholder) - 1) = placeholder
       THEN /\ new_content' = replace(content, placeholder, raw_content)
            /\ sync_pc' = "write"
            /\ error' = error
       ELSE crash("ValueError") /\ new_content' = new_content
    /\ UNCHANGED <<source, dest_before, dest, http, linesep, encoding,
                   raw_content, content, requests>>
    /\ UNCHANGED escaper_vars

\* new_content = content.replace(placeholder, raw_content)
SyncReplace ==
    /\ sync_pc = "replace"
    /\ steps' = Append(steps, "substitute")
    /\ new_content' = replace(content, placeholder, raw_content)
    /\ sync_pc' = "write"
    /\ UNCHANGED <<source, dest_before, dest, http, linesep, encoding,
                   raw_content, content, requests, error>>
    /\ UNCHANGED escaper_vars

\* with open('README.md', 'w') as f: f.write(new_content)
\* (open truncates the file; write encodes the text whole before it stores any)
SyncWrite ==
    /\ sync_pc = "write"
    /\ steps' = Append(steps, "write")
    /\ IF encodes(new_content, encoding)
       THEN dest' = write_text(new_content, linesep) /\ sync_pc' = "done"
            /\ error' = error
       ELSE dest' = <<>> /\ crash("UnicodeEncodeError")
    /\ UNCHANGED <<source, dest_before, http, linesep, encoding, raw_content,
                   content, new_content, requests>>
    /\ UNCHANGED escaper_vars

NextSync == SyncCopy \/ SyncFetch \/ SyncRead \/ SyncReplace \/ SyncWrite

SpecSync == InitSync /\ [][NextSync]_vars

-----------------------------------------------------------------------------
(* Properties of sync_readme.py *)

\* where the placeholder occurs in str
Occurrences(str) ==
    {k \in 1..(Len(str) - Len(placeholder) + 1) :
        SubSeq(str, k, k + Len(placeholder) - 1) = placeholder}

Ended == sync_pc \in {"done", "crashed"}

\* C7 as claimed, for the runs that complete: whenever the copy succeeds and
\* the GET returns a response, README.md ends as temp/README.md with the
\* placeholder replaced by the response body.
C7_Original ==
    (sync_pc = "done" /\ source # Missing /\ ~http.raises)
        => dest = replace(source, placeholder, http.text)

\* C7: when the copy succeeds and the GET returns a response, whatever its
\* status code, the script fails only if README.md does not decode in the
\* locale's encoding (it is left the copy of temp/README.md) or the new
\* content does not encode in it (it is left empty); otherwise it completes
\* and README.md holds what temp/README.md reads as in text mode (CRLF and CR
\* as LF), with the placeholder replaced by the response body, written in
\* text mode (LF as os.linesep).
C7_FinalContent ==
    LET expected == replace(read_text(source), placeholder, http.text)
    IN  /\ sync_pc = "done" =>
              /\ decodes(source, encoding) /\ encodes(expected, encoding)
              /\ dest = write_text(expected, linesep)
        /\ (sync_pc = "crashed" /\ source # Missing /\ ~http.raises) =>
              \/ /\ error = "UnicodeDecodeError"
                 /\ ~decodes(source, encoding)
                 /\ dest = source
              \/ /\ error = "UnicodeEncodeError"
                 /\ decodes(source, encoding) /\ ~encodes(expected, encoding)
                 /\ dest = <<>>

C7_Witness ==
    /\ sync_pc = "done"
    /\ http.status_code = 404
    /\ source = placeholder \o <<"\r">>
    /\ dest = http.text \o linesep
    /\ http.text = <<"N", "o", "t", " ", "F", "o", "u", "n", "d">>

\* new is old with every occurrence of the placeholder replaced by raw, and
\* everything outside the occurrences kept, in place
EveryOccurrenceReplaced(old, raw, new) ==
    LET occ == Occurrences(old)
        m == Len(placeholder)
        d == Len(raw) - m
        before(i) == Cardinality({k \in occ : k < i})
        inside(i) == \E k \in occ : k <= i /\ i < k + m
    IN  /\ \A a, b \in occ : a < b => a + m <= b
        /\ Len(new) = Len(old) + Cardinality(occ) * d
        /\ \A i \in 1..Len(old) :
              ~inside(i) => new[i + before(i) * d] = old[i]
        /\ \A k \in occ :
              SubSeq(new, k + before(k) * d, k + before(k) * d + Len(raw) - 1) = raw

\* C8 as claimed: exactly one occurrence of the placeholder is replaced by the
\* fetched text and all content outside that occurrence is kept.
C8_Original ==
    (sync_pc = "write" /\ Occurrences(content) # {}) =>
        \E k \in Occurrences(content) :
            new_content = SubSeq(content, 1, k - 1) \o raw_content
                          \o SubSeq(content, k + Len(placeholder), Len(content))

\* C8: the substitution step is one literal replacement that replaces every
\* occurrence of the placeholder in the content read by the fetched text and
\* keeps all content outside the occurrences; the fetched text is put in as
\* it is, also when it contains the placeholder.
C8_EveryOccurrence ==
    sync_pc \in {"write", "done"} =>
        EveryOccurrenceReplaced(content, raw_content, new_content)

C8_Witness ==
    /\ sync_pc = "write"
    /\ content = placeholder \o placeholder
    /\ raw_content = placeholder
    /\ new_content = content

\* C9 as claimed: with no placeholder in the copied file, the substitution is
\* a no-op, the script completes, and README.md ends as temp/README.md,
\* unchanged.
C9_Original ==
    ("substitute" \in Range(steps) /\ Occurrences(content) = {}) =>
        /\ sync_pc # "crashed"
        /\ sync_pc = "done" => dest = source

\* C9: with no placeholder in the copied file, the substitution is a no-op
\* and no error: the script still rewrites README.md and completes, and
\* README.md ends as temp/README.md read and written in text mode (CRLF and
\* CR become LF, LF is written as os.linesep), which is temp/README.md
\* unchanged when it holds no CR and os.linesep is LF.
C9_AbsentPlaceholder ==
    ("substitute" \in Range(steps) /\ Occurrences(content) = {}) =>
        /\ new_content = content
        /\ sync_pc \in {"write", "done"}
        /\ error = "none"
        /\ sync_pc = "done" =>
              /\ steps[Len(steps)] = "write"
              /\ dest = write_text(read_text(source), linesep)
              /\ ("\r" \notin Range(source) /\ linesep = <<"\n">>) => dest = source

C9_Witness ==
    /\ sync_pc = "done"
    /\ source = <<"x", "\r">>
    /\ linesep = <<"\n">>
    /\ dest = <<"x", "\n">>

StepOrder == <<"copy", "fetch", "read", "substitute", "write">>

\* C10: the steps run in the order copy, fetch, read, substitute, write, each
\* at most once; a failed copy issues no request and leaves README.md as it
\* was; a failed fetch ends the script before read, substitute and write,
\* with README.md an exact copy of temp/README.md.
C10_StepOrder ==
    /\ Len(steps) <= Len(StepOrder)
    /\ steps = SubSeq(StepOrder, 1, Len(steps))
    /\ requests = Cardinality({i \in 1..Len(steps) : steps[i] = "fetch"})
    /\ requests <= 1
    /\ (sync_pc = "crashed" /\ source = Missing) =>
          /\ error = "FileNotFoundError"
          /\ steps = <<"copy">>
          /\ requests = 0
          /\ dest = dest_before
    /\ (sync_pc = "crashed" /\ source # Missing /\ http.raises) =>
          /\ error = "ConnectionError"
          /\ steps = <<"copy", "fetch">>
          /\ dest = source
          /\ content = NoValue /\ new_content = NoValue
    /\ (Ended /\ source = Missing) => sync_pc = "crashed"
    /\ (Ended /\ source # Missing /\ http.raises) => sync_pc = "crashed"

C10_Witness ==
    /\ sync_pc = "crashed"
    /\ error = "ConnectionError"
    /\ dest_before = <<"o", "l", "d">>
    /\ dest = source
    /\ Occurrences(dest) # {}

====
